---- MODULE Spec2Model ----
(***************************************************************************)
(* State-machine model of rv_node_graph.py: the RV node graph inspector.   *)
(*                                                                         *)
(* The host application (rv.commands) is a read-only store of nodes; the   *)
(* plugin folds it into a hierarchy (get_rv_hierarchy), mirrors it into a  *)
(* NodeGraphQt canvas (RVNodeGraphDialog.build_graph) and reacts to UI     *)
(* events (double click, "Expand Group", collapse).                        *)
(*                                                                         *)
(* Strings that the code slices (node names) are sequences of one-letter   *)
(* strings; a node type string is the set of fragments it contains, or     *)
(* NoType for an absent type.                                              *)
(***************************************************************************)
EXTENDS Integers, Sequences, FiniteSets, TLC

VARIABLES
    host,          \* the host graph served by rv.commands
    g_the_mode,    \* module global g_the_mode: 0 (None) or the instance id
    modes,         \* number of RVNodeGraphVizQt instances constructed
    graph_dialog,  \* g_the_mode.graph_dialog: 0 (None) or the dialog id
    dialogs,       \* number of RVNodeGraphDialog instances constructed
    vn,            \* visual nodes of the session, in creation order
    edges,         \* port connections <<from, to>>
    expanded,      \* ids of the group nodes whose sub graph is open
    subs,          \* per group node id: handler sets connected to its sub graph
    hier,          \* what the last get_rv_hierarchy call returned
    built,         \* host state read by the last build_graph, how it ended, and
                   \* whether it directly followed a build of the same host state
    visible,       \* whether graph_dialog.show() has made the window visible
    ev,            \* the last operation and what it returned
    type_in,       \* classifier input (pure-function specification)
    color_out      \* classifier output

vars == <<host, g_the_mode, modes, graph_dialog, dialogs, vn, edges, expanded,
          subs, hier, built, visible, ev, type_in, color_out>>

(***************************************************************************)
(* Bounds of the model.                                                    *)
(***************************************************************************)
MaxHost == 5
MaxSession == 3
MaxSubs == 2

None == 0

(***************************************************************************)
(* Strings.                                                                *)
(***************************************************************************)
Empty == << >>

\* str.startswith(prefix)
StartsWith(s, prefix) ==
    /\ Len(prefix) <= Len(s)
    /\ \A i \in 1..Len(prefix) : s[i] = prefix[i]

\* s[k:], Python slicing with a 0-based start, empty when k >= len(s)
SliceFrom(s, k) == IF k >= Len(s) THEN Empty ELSE SubSeq(s, k + 1, Len(s))

(***************************************************************************)
(* The host application: rv.commands.  A host node is [name, group, type]; *)
(* the host state is the enumeration rvc.nodes() returns, in its order,    *)
(* and the set of connections <<upstream, downstream>>.                    *)
(***************************************************************************)
Keywords == {"Source", "LUT", "Filter", "View", "Display", "Sequence", "Stack",
             "Layout", "Group"}

\* a node type string: absent (None), or the set of fragments it contains;
\* "IPNode" stands for text that matches no rule
Fragments == Keywords \cup {"IPNode"}

TypeStr(parts) == [present |-> TRUE, parts |-> parts]

NoType == [present |-> FALSE, parts |-> {}]

\* rvc.nodes()
RvNodes(h) == [i \in 1..Len(h.nodes) |-> h.nodes[i].name]

HostEntry(h, node_name) == CHOOSE e \in {h.nodes[i] : i \in 1..Len(h.nodes)} : e.name = node_name

\* rvc.nodeGroup(node_name)
NodeGroup(h, node_name) == HostEntry(h, node_name).group

\* rvc.nodeType(node_name)
NodeType(h, node_name) == HostEntry(h, node_name).type

\* the names of `names` that are in `keep`, in enumeration order
RECURSIVE Filtered(_, _, _)
Filtered(names, keep, i) ==
    IF i > Len(names) THEN Empty
    ELSE (IF names[i] \in keep THEN <<names[i]>> ELSE Empty) \o Filtered(names, keep, i + 1)

\* rvc.nodeConnections(node_name): <<inputs, outputs>>
NodeConnections(h, node_name) ==
    << Filtered(RvNodes(h), {c[1] : c \in {d \in h.conns : d[2] = node_name}}, 1),
       Filtered(RvNodes(h), {c[2] : c \in {d \in h.conns : d[1] = node_name}}, 1) >>

(***************************************************************************)
(* get_node_color                                                          *)
(***************************************************************************)
Contains(node_type, keyword) == keyword \in node_type.parts

\* variant: the Group rule is tested before the others
get_node_color_GroupFirst(node_type) ==
    IF ~node_type.present \/ node_type.parts = {} THEN <<100, 100, 100>>
    ELSE IF Contains(node_type, "Group") THEN <<110, 110, 110>>
    ELSE IF Contains(node_type, "Source") THEN <<80, 120, 80>>
    ELSE IF Contains(node_type, "LUT") THEN <<150, 120, 80>>
    ELSE IF Contains(node_type, "Filter") THEN <<120, 100, 80>>
    ELSE IF Contains(node_type, "View") \/ Contains(node_type, "Display") THEN <<80, 80, 130>>
    ELSE IF Contains(node_type, "Sequence") THEN <<130, 80, 130>>
    ELSE IF Contains(node_type, "Stack") THEN <<80, 130, 130>>
    ELSE IF Contains(node_type, "Layout") THEN <<130, 130, 80>>
    ELSE <<100, 100, 100>>

get_node_color(node_type) ==
    IF ~node_type.present \/ node_type.parts = {} THEN <<100, 100, 100>>
    ELSE IF Contains(node_type, "Source") THEN <<80, 120, 80>>
    ELSE IF Contains(node_type, "LUT") THEN <<150, 120, 80>>
    ELSE IF Contains(node_type, "Filter") THEN <<120, 100, 80>>
    ELSE IF Contains(node_type, "View") \/ Contains(node_type, "Display") THEN <<80, 80, 130>>
    ELSE IF Contains(node_type, "Sequence") THEN <<130, 80, 130>>
    ELSE IF Contains(node_type, "Stack") THEN <<80, 130, 130>>
    ELSE IF Contains(node_type, "Layout") THEN <<130, 130, 80>>
    ELSE IF Contains(node_type, "Group") THEN <<110, 110, 110>>
    ELSE <<100, 100, 100>>

(***************************************************************************)
(* get_rv_hierarchy.  A Python dict is the sequence of its items in        *)
(* insertion order; an item is <<key, id of the dict it maps to>>.  The    *)
(* dict created for the i-th enumerated node has id i, root_nodes has id   *)
(* 0; all_nodes_map maps a name to the id of its dict (a reference).       *)
(***************************************************************************)
RootId == 0

Keys(d) == {d[i][1] : i \in 1..Len(d)}

\* d[key] = {} with the new dict's id: a new key is appended, an old one rebound
DictSet(d, key, id) ==
    IF key \in Keys(d)
    THEN [i \in 1..Len(d) |-> IF d[i][1] = key THEN <<key, id>> ELSE d[i]]
    ELSE Append(d, <<key, id>>)

\* variant: every node is inserted into root_nodes, whatever its group
HierStep_RootOnly(h, st, i) ==
    LET node_name == RvNodes(h)[i]
    IN  [st EXCEPT !.dicts[RootId] = DictSet(@, node_name, i),
                   !.all_nodes_map = (node_name :> i) @@ @]

\* variant: a node whose group is not indexed yet is inserted into root_nodes
HierStep_Lenient(h, st, i) ==
    LET node_name == RvNodes(h)[i]
        group == NodeGroup(h, node_name)
        parent == IF group = Empty \/ group \notin DOMAIN st.all_nodes_map
                  THEN RootId ELSE st.all_nodes_map[group]
    IN  [st EXCEPT !.dicts[parent] = DictSet(@, node_name, i),
                   !.all_nodes_map = (node_name :> i) @@ @]

\* one iteration of the loop over rvc.nodes()
HierStep(h, st, i) ==
    LET node_name == RvNodes(h)[i]
        group == NodeGroup(h, node_name)
    IN  IF group = Empty
        THEN [st EXCEPT !.dicts[RootId] = DictSet(@, node_name, i),
                        !.all_nodes_map = (node_name :> i) @@ @]
        ELSE IF group \notin DOMAIN st.all_nodes_map
        THEN [st EXCEPT !.status = "KeyError"]
        ELSE [st EXCEPT !.dicts[st.all_nodes_map[group]] = DictSet(@, node_name, i),
                        !.all_nodes_map = (node_name :> i) @@ @]

RECURSIVE HierLoop(_, _, _)
HierLoop(h, st, i) ==
    IF i > Len(h.nodes) \/ st.status = "KeyError" THEN st
    ELSE HierLoop(h, HierStep(h, st, i), i + 1)

NoHierarchy == [status |-> "none", dicts |-> (RootId :> Empty)]

\* the returned root_nodes (with the dicts it reaches), or the KeyError raised
get_rv_hierarchy(h) ==
    LET st == HierLoop(h, [status |-> "returned",
                           dicts |-> [d \in 0..Len(h.nodes) |-> Empty],
                           all_nodes_map |-> [n \in {} |-> 0]], 1)
    IN  IF st.status = "KeyError"
        THEN [status |-> "KeyError", dicts |-> (RootId :> Empty)]
        ELSE [status |-> "returned", dicts |-> st.dicts]

(***************************************************************************)
(* The NodeGraphQt session.  A store S is [vn, edges, expanded, subs,      *)
(* status, notices]: the visual nodes in creation order (a node's id is    *)
(* its index), the port connections, the expanded group nodes, per node    *)
(* the number of handler sets RVGroupNode.expand connected to its sub      *)
(* graph, "ok" or the exception that ended the operation, and the number   *)
(* of "Expanding group node" notices printed.                              *)
(*                                                                         *)
(* A graph is 0 (the dialog's NodeGraph) or the id of the group node whose *)
(* SubGraph it is.  A displayed name is <<text, k>>: k > 0 is the suffix   *)
(* NodeGraphQt appends to keep names unique within a graph.  A port        *)
(* connection joins ends <<"node", id>>, <<"in", graph>> (the sub graph's  *)
(* input port node) and <<"out", graph>> (its output port node).           *)
(***************************************************************************)
TopGraph == 0

EmptySession == [vn |-> Empty, edges |-> {}, expanded |-> {}, subs |-> Empty,
                 status |-> "ok", notices |-> 0]

\* isinstance(graph, NodeGraphQt.SubGraph)
IsSubGraph(graph) == graph # TopGraph

NodeEnd(id) == <<"node", id>>

InPort(graph) == <<"in", graph>>

OutPort(graph) == <<"out", graph>>

\* variant: the session is not cleared
clear_session_Keep(S) == S

\* self._node_graph.clear_session()
clear_session(S) == EmptySession

\* the name NodeGraphQt gives a node asked to be called `text` in `graph`
get_unique_name(S, graph, text) ==
    LET used == {S.vn[i].name : i \in {j \in 1..Len(S.vn) : S.vn[j].graph = graph}}
    IN  IF <<text, 0>> \notin used THEN <<text, 0>>
        ELSE <<text, CHOOSE k \in 1..(Len(S.vn) + 1) :
                         /\ <<text, k>> \notin used
                         /\ \A j \in 1..(k - 1) : <<text, j>> \in used>>

\* graph.get_node_by_name(text): the first node of the graph so named, or None
get_node_by_name(S, graph, text) ==
    LET found == {i \in 1..Len(S.vn) : S.vn[i].graph = graph /\ S.vn[i].name = <<text, 0>>}
    IN  IF found = {} THEN None ELSE CHOOSE i \in found : \A j \in found : i <= j

\* RVGroupNode.expand
RVGroupNode_expand(S, node) ==
    LET was_expanded == node \in S.expanded
        S1 == [S EXCEPT !.expanded = @ \cup {node}]
    IN  IF ~was_expanded THEN [S1 EXCEPT !.subs[node] = @ + 1] ELSE S1

\* node.expand() on whatever get_node_by_name returned: RVNode has no expand
node_expand(S, node) ==
    IF S.vn[node].kind = "rv.RVGroupNode" THEN RVGroupNode_expand(S, node)
    ELSE [S EXCEPT !.status = "AttributeError"]

\* node.collapse(): the sub graph is closed, its contents are kept
node_collapse(S, node) == [S EXCEPT !.expanded = @ \ {node}]

\* variant: no is_expanded test
expand_group_node_NoGuard(S, node) ==
    [RVGroupNode_expand(S, node) EXCEPT !.notices = @ + 1]

\* expand_group_node(graph, node)
expand_group_node(S, node) ==
    IF node \notin S.expanded
    THEN [RVGroupNode_expand(S, node) EXCEPT !.notices = @ + 1]
    ELSE S

\* _on_node_double_clicked(node)
on_node_double_clicked(S, node) ==
    IF S.vn[node].kind = "rv.RVGroupNode" THEN expand_group_node(S, node) ELSE S

(***************************************************************************)
(* RVNodeGraphDialog.build_graph                                           *)
(***************************************************************************)
\* variant: one character too many is dropped
stripped_name_Plus2(h, node_name) ==
    LET group == NodeGroup(h, node_name)
    IN  IF group # Empty /\ StartsWith(node_name, group)
        THEN SliceFrom(node_name, Len(group) + 2)
        ELSE node_name

\* _stripped_name(node_name)
stripped_name(h, node_name) ==
    LET group == NodeGroup(h, node_name)
    IN  IF group # Empty /\ StartsWith(node_name, group)
        THEN SliceFrom(node_name, Len(group) + 1)
        ELSE node_name

\* the first loop's body: create and dress the node of one entry
CreateEntry(h, S, graph, node_name, children) ==
    LET node_type == NodeType(h, node_name)
        node == [graph |-> graph,
                 kind |-> IF children # Empty THEN "rv.RVGroupNode" ELSE "rv.RVNode",
                 color |-> get_node_color(node_type),
                 name |-> get_unique_name(S, graph, stripped_name(h, node_name)),
                 original_name |-> node_name,
                 node_type |-> node_type]
    IN  [S EXCEPT !.vn = Append(@, node), !.subs = Append(@, 0)]

\* the loop over inputs: connect every input whose node is found in this graph
InputEdges(h, S, graph, node, inputs) ==
    {<<NodeEnd(get_node_by_name(S, graph, stripped_name(h, inputs[i]))), NodeEnd(node)>> :
        i \in {j \in 1..Len(inputs) :
                  get_node_by_name(S, graph, stripped_name(h, inputs[j])) # None}}

\* variant: only a node without outputs is wired to the output port node
ToOutputPort_NoOutputsOnly(h, graph, node_name, outputs) ==
    /\ outputs = Empty
    /\ IsSubGraph(graph)

\* the condition under which the node is wired to the output port node
ToOutputPort(h, graph, node_name, outputs) ==
    /\ outputs = Empty \/ NodeGroup(h, outputs[1]) # NodeGroup(h, node_name)
    /\ IsSubGraph(graph)

\* the connections part of the second loop's body
WireEntry(h, S, graph, node_name, node) ==
    LET conn == NodeConnections(h, node_name)
        inputs == conn[1]
        outputs == conn[2]
        ins == IF inputs # Empty THEN InputEdges(h, S, graph, node, inputs)
               ELSE IF IsSubGraph(graph) THEN {<<InPort(graph), NodeEnd(node)>>}
               ELSE {}
        outs == IF ToOutputPort(h, graph, node_name, outputs)
                THEN {<<NodeEnd(node), OutPort(graph)>>}
                ELSE {}
    IN  [S EXCEPT !.edges = @ \cup ins \cup outs]

RECURSIVE build_graph_rec(_, _, _, _, _)
RECURSIVE WireLoop(_, _, _, _, _, _)
RECURSIVE CreateLoop(_, _, _, _, _, _)

\* for node_name in nodes: create the nodes
CreateLoop(h, dicts, S, graph, nodes, i) ==
    IF i > Len(nodes) THEN S
    ELSE CreateLoop(h, dicts,
                    CreateEntry(h, S, graph, nodes[i][1], dicts[nodes[i][2]]),
                    graph, nodes, i + 1)

\* for node_name in nodes: build the connections, populate the group nodes
WireLoop(h, dicts, S, graph, nodes, i) ==
    IF i > Len(nodes) \/ S.status # "ok" THEN S
    ELSE LET node_name == nodes[i][1]
             children == dicts[nodes[i][2]]
             node == get_node_by_name(S, graph, stripped_name(h, node_name))
         IN  IF node = None THEN WireLoop(h, dicts, S, graph, nodes, i + 1)
             ELSE LET S1 == WireEntry(h, S, graph, node_name, node)
                      S2 == IF children = Empty THEN S1 ELSE node_expand(S1, node)
                      S3 == IF children = Empty \/ S2.status # "ok" THEN S2
                            ELSE build_graph_rec(h, dicts, S2, node, children)
                      S4 == IF children = Empty \/ S3.status # "ok" THEN S3
                            ELSE node_collapse(S3, node)
                  IN  WireLoop(h, dicts, S4, graph, nodes, i + 1)

\* _build_graph(graph, nodes)
build_graph_rec(h, dicts, S, graph, nodes) ==
    WireLoop(h, dicts, CreateLoop(h, dicts, S, graph, nodes, 1), graph, nodes, 1)

\* build_graph: the session it leaves, the hierarchy it got, and how it ended
build_graph(h, S) ==
    LET S0 == clear_session(S)
        root_nodes == get_rv_hierarchy(h)
    IN  IF root_nodes.status = "KeyError"
        THEN [session |-> [S0 EXCEPT !.status = "KeyError"], hier |-> root_nodes]
        ELSE [session |-> build_graph_rec(h, root_nodes.dicts, S0, TopGraph,
                                          root_nodes.dicts[RootId]),
              hier |-> root_nodes]

(***************************************************************************)
(* Host graphs the model is run on.                                        *)
(***************************************************************************)
HostNode(name, group, parts) == [name |-> name, group |-> group, type |-> TypeStr(parts)]

\* candidate host nodes: a top-level leaf "a", a top-level group "g" with
\* members "g_a", "gxa", "g_b" (each a possible group itself), and a member
\* of "g_a" and of "gxa" whose names do not carry the group's name
Universe ==
    { HostNode(<<"a">>, Empty, {"Source", "IPNode"}),
      HostNode(<<"g">>, Empty, {"Source", "Group"}),
      HostNode(<<"g", "_", "a">>, <<"g">>, {"LUT", "IPNode"}),
      HostNode(<<"g", "x", "a">>, <<"g">>, {"Filter", "View"}),
      HostNode(<<"g", "_", "b">>, <<"g">>, {"IPNode"}),
      HostNode(<<"a">>, <<"g", "_", "a">>, {"Stack", "Group"}),
      HostNode(<<"d">>, <<"g", "x", "a">>, {}) }

\* the smaller set the session specification adds nodes from
SessionUniverse ==
    { e \in Universe : /\ e.name \in {<<"g">>, <<"g", "_", "a">>, <<"a">>}
                       /\ (e.group # Empty \/ e.name = <<"g">>) }

RECURSIVE SeqsOver(_, _)
\* the sequences of at most n elements of S with pairwise distinct names
SeqsOver(S, n) ==
    IF n = 0 THEN {Empty}
    ELSE LET shorter == SeqsOver(S, n - 1)
         IN  shorter \cup
             {Append(p[1], p[2]) :
                 p \in {r \in shorter \X S : \A i \in 1..Len(r[1]) : r[1][i].name # r[2].name}}

NamesOf(nodes) == {nodes[i].name : i \in 1..Len(nodes)}

RECURSIVE SubsetsUpTo(_, _)
\* the subsets of S of at most k elements
SubsetsUpTo(S, k) ==
    IF k = 0 THEN {{}}
    ELSE LET smaller == SubsetsUpTo(S, k - 1)
         IN  smaller \cup {p[1] \cup {p[2]} : p \in smaller \X S}

\* the possible connection sets of at most k connections between listed nodes
ConnSets(nodes, k) ==
    SubsetsUpTo({c \in NamesOf(nodes) \X NamesOf(nodes) : c[1] # c[2]}, k)

HostSize(h) == Len(h.nodes) + Cardinality(h.conns)

\* host graphs of the build specification: nodes plus connections <= MaxHost
IsHost(h) ==
    \E q \in SeqsOver(Universe, MaxHost) :
        \E cs \in ConnSets(q, MaxHost - Len(q)) : h = [nodes |-> q, conns |-> cs]

EmptyHost == [nodes |-> Empty, conns |-> {}]

(***************************************************************************)
(* The state machine.                                                      *)
(***************************************************************************)
Session == [vn |-> vn, edges |-> edges, expanded |-> expanded, subs |-> subs,
            status |-> "ok", notices |-> 0]

Event(op, node, ret, notices, shown) ==
    [op |-> op, node |-> node, ret |-> ret, notices |-> notices, shown |-> shown]

\* the module is loaded: g_the_mode = None, nothing is built
PluginInit ==
    /\ g_the_mode = None
    /\ modes = 0
    /\ graph_dialog = None
    /\ dialogs = 0
    /\ vn = Empty
    /\ edges = {}
    /\ expanded = {}
    /\ subs = Empty
    /\ hier = NoHierarchy
    /\ built = [host |-> EmptyHost, status |-> "none", again |-> FALSE]
    /\ visible = FALSE
    /\ ev = Event("load", 0, None, 0, FALSE)

ClassifierIdle ==
    /\ type_in = NoType
    /\ color_out = Empty

\* RVNodeGraphVizQt(): a new instance, its graph_dialog None
NewMode ==
    /\ modes' = modes + 1
    /\ g_the_mode' = modes + 1
    /\ graph_dialog' = None

\* variant: no "is None" test
createMode_NoGuard ==
    /\ NewMode
    /\ ev' = Event("createMode", 0, g_the_mode', 0, FALSE)
    /\ UNCHANGED <<host, dialogs, vn, edges, expanded, subs, hier, built, visible,
                   type_in, color_out>>

createMode ==
    /\ IF g_the_mode = None THEN NewMode
       ELSE UNCHANGED <<modes, g_the_mode, graph_dialog>>
    /\ ev' = Event("createMode", 0, g_the_mode', 0, FALSE)
    /\ UNCHANGED <<host, dialogs, vn, edges, expanded, subs, hier, built, visible,
                   type_in, color_out>>

theMode ==
    /\ IF g_the_mode = None THEN NewMode
       ELSE UNCHANGED <<modes, g_the_mode, graph_dialog>>
    /\ ev' = Event("theMode", 0, g_the_mode', 0, FALSE)
    /\ UNCHANGED <<host, dialogs, vn, edges, expanded, subs, hier, built, visible,
                   type_in, color_out>>

\* if not self.graph_dialog: self.graph_dialog = RVNodeGraphDialog()
EnsureDialog ==
    IF graph_dialog = None
    THEN dialogs' = dialogs + 1 /\ graph_dialog' = dialogs + 1
    ELSE UNCHANGED <<dialogs, graph_dialog>>

\* the menu action of the mode instance; show() is reached when build_graph returns
show_graph_window ==
    /\ g_the_mode # None
    /\ EnsureDialog
    /\ LET r == build_graph(host, Session)
       IN  /\ vn' = r.session.vn
           /\ edges' = r.session.edges
           /\ expanded' = r.session.expanded
           /\ subs' = r.session.subs
           /\ hier' = r.hier
           /\ built' = [host |-> host, status |-> r.session.status,
                        again |-> (ev.op = "show_graph_window" /\ built.host = host)]
           /\ visible' = (visible \/ r.session.status = "ok")
           /\ ev' = Event("show_graph_window", 0, None, 0, r.session.status = "ok")
    /\ UNCHANGED <<host, g_the_mode, modes, type_in, color_out>>

\* the nodes the user can reach: those of the top graph and of open sub graphs
Reachable(node) ==
    /\ visible
    /\ node \in 1..Len(vn)
    /\ vn[node].graph = TopGraph \/ vn[node].graph \in expanded

\* a sub graph takes at most MaxSubs handler sets in the model
WithinSubs(node) ==
    (vn[node].kind = "rv.RVGroupNode" /\ node \notin expanded) => subs[node] < MaxSubs

ApplyEvent(S, op, node) ==
    /\ vn' = S.vn
    /\ edges' = S.edges
    /\ expanded' = S.expanded
    /\ subs' = S.subs
    /\ ev' = Event(op, node, None, S.notices, FALSE)
    /\ UNCHANGED <<host, g_the_mode, modes, graph_dialog, dialogs, hier, built,
                   visible, type_in, color_out>>

\* the node_double_clicked signal
DoubleClick(node) ==
    /\ Reachable(node)
    /\ WithinSubs(node)
    /\ ApplyEvent(on_node_double_clicked(Session, node), "double_click", node)

\* the "Expand Group" command of the nodes menu, offered on rv.RVGroupNode
ExpandCommand(node) ==
    /\ Reachable(node)
    /\ vn[node].kind = "rv.RVGroupNode"
    /\ WithinSubs(node)
    /\ ApplyEvent(expand_group_node(Session, node), "expand_command", node)

\* the user closes the sub graph of an expanded group node
CollapseGroup(node) ==
    /\ Reachable(node)
    /\ node \in expanded
    /\ ApplyEvent(node_collapse(Session, node), "collapse", node)

HostEvent ==
    /\ ev' = Event("host", 0, None, 0, FALSE)
    /\ UNCHANGED <<g_the_mode, modes, graph_dialog, dialogs, vn, edges, expanded,
                   subs, hier, built, visible, type_in, color_out>>

\* the host session gains a node
HostAddNode(e) ==
    /\ HostSize(host) < MaxSession
    /\ e.name \notin NamesOf(host.nodes)
    /\ host' = [host EXCEPT !.nodes = Append(@, e)]
    /\ HostEvent

\* the host session loses its i-th node and the connections of that node
HostRemoveNode(i) ==
    /\ i \in 1..Len(host.nodes)
    /\ host' = [nodes |-> SubSeq(host.nodes, 1, i - 1) \o SubSeq(host.nodes, i + 1, Len(host.nodes)),
                conns |-> {c \in host.conns : host.nodes[i].name \notin {c[1], c[2]}}]
    /\ HostEvent

\* the host session gains a connection from node u to node x
HostConnect(u, x) ==
    /\ HostSize(host) < MaxSession
    /\ u # x
    /\ <<u, x>> \notin host.conns
    /\ host' = [host EXCEPT !.conns = @ \cup {<<u, x>>}]
    /\ HostEvent

Init ==
    /\ host = EmptyHost
    /\ PluginInit
    /\ ClassifierIdle

Next ==
    \/ createMode
    \/ theMode
    \/ show_graph_window
    \/ \E node \in 1..Len(vn) : DoubleClick(node)
    \/ \E node \in 1..Len(vn) : ExpandCommand(node)
    \/ \E node \in 1..Len(vn) : CollapseGroup(node)
    \/ \E e \in SessionUniverse : HostAddNode(e)
    \/ \E i \in 1..Len(host.nodes) : HostRemoveNode(i)
    \/ \E u \in NamesOf(host.nodes) : \E x \in NamesOf(host.nodes) : HostConnect(u, x)

\* a host session: the graph changes, the user inspects it and clicks around
Spec == Init /\ [][Next]_vars

InitBuild ==
    /\ IsHost(host)
    /\ PluginInit
    /\ ClassifierIdle

NextBuild ==
    \/ createMode
    \/ show_graph_window

\* builds of a fixed host graph, over all host graphs within the bounds
SpecBuild == InitBuild /\ [][NextBuild]_vars

TypeInputs == {NoType} \cup {TypeStr(parts) : parts \in SUBSET Fragments}

InitColor ==
    /\ host = EmptyHost
    /\ PluginInit
    /\ type_in \in TypeInputs
    /\ color_out = Empty

Classify ==
    /\ color_out = Empty
    /\ color_out' = get_node_color(type_in)
    /\ UNCHANGED <<host, g_the_mode, modes, graph_dialog, dialogs, vn, edges,
                   expanded, subs, hier, built, visible, ev, type_in>>

NextColor == Classify

\* the classifier applied to every type string within the bounds
SpecColor == InitColor /\ [][NextColor]_vars

(***************************************************************************)
(* Properties.                                                             *)
(***************************************************************************)
\* every node's parent group is enumerated before the node itself
ParentsFirst(h) ==
    \A i \in 1..Len(h.nodes) :
        \/ h.nodes[i].group = Empty
        \/ \E j \in 1..(i - 1) : h.nodes[j].name = h.nodes[i].group

RECURSIVE ReachFrom(_, _)
\* the dicts reached from the dicts in `seen` by following items
ReachFrom(dicts, seen) ==
    LET nxt == seen \cup UNION {{dicts[d][k][2] : k \in 1..Len(dicts[d])} : d \in seen}
    IN  IF nxt = seen THEN seen ELSE ReachFrom(dicts, nxt)

\* the places <<dict, position>> of the mapping rooted at root_nodes
Places(dicts) ==
    UNION {{<<d, k>> : k \in 1..Len(dicts[d])} : d \in ReachFrom(dicts, {RootId})}

\* the places where `name` is a key
Occurrences(dicts, name) == {o \in Places(dicts) : dicts[o[1]][o[2]][1] = name}

\* the dicts that are the sub-mapping of key `name`
SubMappings(dicts, name) == {dicts[o[1]][o[2]][2] : o \in Occurrences(dicts, name)}

JustBuilt == ev.op = "show_graph_window"

\* C1: for a host enumeration that lists every parent group before its
\* members, get_rv_hierarchy returns a mapping in which every host node name
\* is a key exactly once, in the sub-mapping of its parent group, or in the
\* root mapping when it has no group, and no other key appears.
C1_HierarchyTree ==
    (JustBuilt /\ ParentsFirst(host)) =>
        /\ hier.status = "returned"
        /\ \A i \in 1..Len(host.nodes) :
              LET e == host.nodes[i]
                  occ == Occurrences(hier.dicts, e.name)
              IN  /\ Cardinality(occ) = 1
                  /\ \A o \in occ :
                        IF e.group = Empty THEN o[1] = RootId
                        ELSE SubMappings(hier.dicts, e.group) = {o[1]}
        /\ \A o \in Places(hier.dicts) : hier.dicts[o[1]][o[2]][1] \in NamesOf(host.nodes)

\* a hierarchy three levels deep was returned
C1_Witness ==
    /\ JustBuilt
    /\ ParentsFirst(host)
    /\ hier.status = "returned"
    /\ Len(host.nodes) >= 4
    /\ \E i \in 1..Len(host.nodes) :
          /\ host.nodes[i].group # Empty
          /\ NodeGroup(host, host.nodes[i].group) # Empty

\* the rules in priority order: the keywords of a rule and its colour
ColorRules ==
    << <<{"Source"}, <<80, 120, 80>>>>,
       <<{"LUT"}, <<150, 120, 80>>>>,
       <<{"Filter"}, <<120, 100, 80>>>>,
       <<{"View", "Display"}, <<80, 80, 130>>>>,
       <<{"Sequence"}, <<130, 80, 130>>>>,
       <<{"Stack"}, <<80, 130, 130>>>>,
       <<{"Layout"}, <<130, 130, 80>>>>,
       <<{"Group"}, <<110, 110, 110>>>> >>

NeutralColor == <<100, 100, 100>>

\* C5: get_node_color returns the colour of the first rule, in the order
\* Source, LUT, Filter, View-or-Display, Sequence, Stack, Layout, Group, one
\* of whose keywords the type string contains, and the neutral default when
\* the string is absent, empty or contains no keyword.
C5_FirstMatchWins ==
    color_out # Empty =>
        LET hits == {k \in 1..Len(ColorRules) : ColorRules[k][1] \cap type_in.parts # {}}
        IN  IF ~type_in.present \/ hits = {} THEN color_out = NeutralColor
            ELSE color_out = ColorRules[CHOOSE k \in hits : \A m \in hits : k <= m][2]

\* a string matching three rules was given the colour of the first of them
C5_Witness ==
    /\ color_out = <<150, 120, 80>>
    /\ {"LUT", "Stack", "Group"} \subseteq type_in.parts

\* C8: when the enumeration lists a node whose parent group is not indexed
\* yet (listed later, or never), get_rv_hierarchy raises, no hierarchy is
\* returned, the build ends with that error having created no visual node
\* and no edge, and show() is not reached.
C8_UnindexedParentAborts ==
    (JustBuilt /\ ~ParentsFirst(host)) =>
        /\ hier.status = "KeyError"
        /\ built.status = "KeyError"
        /\ vn = Empty
        /\ edges = {}
        /\ ~ev.shown

\* a build was aborted because a member was listed before its group
C8_Witness ==
    /\ JustBuilt
    /\ built.status = "KeyError"
    /\ \E i \in 1..Len(host.nodes) : \E j \in (i + 1)..Len(host.nodes) :
          host.nodes[i].group = host.nodes[j].name

\* C3: a build that directly follows a build of the same host state leaves
\* the visual nodes (their graph, name, colour, stored name and type) and
\* the port connections as they were.
C3_RebuildIdempotent ==
    [][(JustBuilt /\ ev'.op = "show_graph_window" /\ host' = host)
          => (vn' = vn /\ edges' = edges)]_vars

\* a second build in a row of a host with a group, a member and an edge
C3_Witness ==
    /\ JustBuilt
    /\ built.again
    /\ built.status = "ok"
    /\ \E i \in 1..Len(vn) : vn[i].kind = "rv.RVGroupNode"
    /\ \E e \in edges : e[1][1] = "node" /\ e[2][1] = "node"

\* the visual nodes that store `name` as their original name
VisOf(name) == {i \in 1..Len(vn) : vn[i].original_name = name}

Completed == JustBuilt /\ built.status = "ok"

\* C2: after a completed build every enumerated host node has exactly one
\* visual node, in the graph of its parent group (the top graph when it has
\* none), and every visual node is that of an enumerated host node.
C2_OneVisualNodeInParentGraph ==
    Completed =>
        /\ \A k \in 1..Len(host.nodes) :
              LET e == host.nodes[k]
              IN  /\ Cardinality(VisOf(e.name)) = 1
                  /\ \A i \in VisOf(e.name) :
                        IF e.group = Empty THEN vn[i].graph = TopGraph
                        ELSE vn[i].graph \in VisOf(e.group)
        /\ \A i \in 1..Len(vn) : vn[i].original_name \in NamesOf(host.nodes)

\* the text a visual node was asked to display: its stripped host name
TextOf(i) == vn[i].name[1]

\* C4 as claimed: the stripped names of the nodes of one graph are pairwise
\* distinct.
C4_StrippedNamesDistinct ==
    \A i \in 1..Len(vn) : \A j \in 1..Len(vn) :
        (i # j /\ vn[i].graph = vn[j].graph) => TextOf(i) # TextOf(j)

\* whether `name` carries the name of `group` in front
Prefixed(name, group) == StartsWith(name, group)

\* the character that follows the group's name, as a string
SeparatorOf(name, group) ==
    IF Len(name) > Len(group) THEN <<name[Len(group) + 1]>> ELSE Empty

\* C4 as amended: two nodes of one graph and one parent group get the same
\* stripped name only in a sub graph, and only when exactly one of the two
\* names carries the group's name in front or when the characters that
\* follow the group's name differ; in particular members named
\* group + one common separator + rest get pairwise distinct names.
C4_SameNameOnlyByPrefixOrSeparator ==
    \A i \in 1..Len(vn) : \A j \in 1..Len(vn) :
        LET ni == vn[i].original_name
            nj == vn[j].original_name
            gi == NodeGroup(built.host, ni)
        IN  (/\ i # j
             /\ vn[i].graph = vn[j].graph
             /\ gi = NodeGroup(built.host, nj)
             /\ TextOf(i) = TextOf(j))
            => /\ IsSubGraph(vn[i].graph)
               /\ \/ Prefixed(ni, gi) # Prefixed(nj, gi)
                  \/ /\ Prefixed(ni, gi)
                     /\ Prefixed(nj, gi)
                     /\ SeparatorOf(ni, gi) # SeparatorOf(nj, gi)

\* two members with the same separator sit in one sub graph under distinct
\* names, next to a member that repeats the name of one of them
C4_Witness ==
    /\ Completed
    /\ \E i \in 1..Len(vn) : \E j \in 1..Len(vn) : \E k \in 1..Len(vn) :
          /\ i # j /\ j # k /\ i # k
          /\ IsSubGraph(vn[i].graph)
          /\ vn[i].graph = vn[j].graph /\ vn[j].graph = vn[k].graph
          /\ vn[i].original_name = <<"g", "_", "a">>
          /\ vn[j].original_name = <<"g", "_", "b">>
          /\ TextOf(i) # TextOf(j)
          /\ TextOf(k) = TextOf(i)

\* whether node i is connected to the output port node of its graph
OutWired(i) == <<NodeEnd(i), OutPort(vn[i].graph)>> \in edges

OutputsOf(i) == NodeConnections(host, vn[i].original_name)[2]

GroupOfVis(i) == NodeGroup(host, vn[i].original_name)

ResolvedFor(j) == get_node_by_name(Session, vn[j].graph, TextOf(j))

NodeEdges == {e \in edges : e[1][1] = "node" /\ e[2][1] = "node"}

\* C10: after a completed build the connections between visual nodes are
\* exactly the host connections whose two ends are placed in one graph.
C10_EdgesMirrorHost ==
    Completed =>
        NodeEdges =
            {e \in {<<NodeEnd(i), NodeEnd(j)>> : <<i, j>> \in (1..Len(vn)) \X (1..Len(vn))} :
                /\ <<vn[e[1][2]].original_name, vn[e[2][2]].original_name>> \in host.conns
                /\ vn[e[1][2]].graph = vn[e[2][2]].graph}

\* the nodes and edges are those of a build of the current host graph from
\* a cleared session
Rebuilt ==
    LET r == build_graph(host, EmptySession).session
    IN  /\ built.host = host
        /\ vn = r.vn
        /\ edges = r.edges

\* at most one instance and one dialog are made, createMode and theMode
\* return the instance, and the dialog is made by the first show_graph_window
OneModeOneDialog ==
    /\ modes <= 1
    /\ dialogs <= 1
    /\ (ev.op \in {"createMode", "theMode"}) => (ev.ret = 1 /\ g_the_mode = 1)
    /\ (dialogs = 1) <=> (built.status # "none")
    /\ (graph_dialog # None) <=> (dialogs = 1)

\* C6 as claimed: one instance, one dialog, and every show_graph_window
\* rebuilds the graph from the current host state and then shows the window.
C6_AlwaysShown ==
    /\ OneModeOneDialog
    /\ JustBuilt => (Rebuilt /\ ev.shown /\ visible)

\* C6 as amended: one instance, one dialog, and every show_graph_window
\* clears and rebuilds the graph from the current host state; it shows the
\* window exactly when that build returns, and never when the build is
\* aborted by the error of an unindexed parent group.
C6_ShownWhenBuilt ==
    /\ OneModeOneDialog
    /\ JustBuilt => /\ Rebuilt
                    /\ ev.shown <=> (built.status = "ok")
                    /\ ev.shown => visible
                    /\ (built.status = "KeyError") => (vn = Empty /\ edges = {})

\* a later show_graph_window, after createMode or theMode was called again
\* and the host graph changed, has rebuilt a graph with a group and shown it
C6_Witness ==
    /\ JustBuilt
    /\ ev.shown
    /\ dialogs = 1
    /\ modes = 1
    /\ built.status = "ok"
    /\ \E i \in 1..Len(vn) : vn[i].graph # TopGraph
    /\ Len(host.nodes) = MaxSession

UiOps == {"double_click", "expand_command"}

====
